---- MODULE Spec2Model ----
(***************************************************************************)
(* Model of the csv-normalizer skill: functional-dependency discovery      *)
(* (analyze.py), schema synthesis (normalize.py) and the replay of a saved  *)
(* transform config on new data (transform.py).                             *)
(*                                                                         *)
(* Column names are modelled as the integers 1..NumAttrs, ordered as the   *)
(* names sort lexicographically.  A determinant, which the code always     *)
(* reads through set(...) or sorted(...), is a set of attributes; wherever *)
(* the code walks a sorted determinant the model walks SortedSeq of it.    *)
(***************************************************************************)
EXTENDS Integers, Sequences, FiniteSets, TLC

\* ---------------------------------------------------------------- bounds
NumAttrs == 3
MaxFds == 3
MaxClosureFds == 2
MaxKeys == 1
MaxRows == 3
NumVals == 3
NumBcnfAttrs == 4
MaxBcnfFds == 2
MaxDepth == 5
MaxJoinRows == 2
NumJoinVals == 2
MaxEmpRows == 5
NumDepts == 3
NumNames == 2
MaxReviewRows == 6
MaxReplayTables == 3
MaxReplayRows == 1
MaxGroups == 20001
MaxViolations == 1

Attrs == 1..NumAttrs

VARIABLES
    df,              \* analyze.py: the table read from the CSV, a list of rows
    columns,         \* list(df.columns)
    fds,             \* the FD list handed to / produced by the operations
    candidate_keys,  \* list of candidate keys, each a record with "columns"
    attrs,           \* compute_closure: the argument attrs
    closure,         \* compute_closure: local closure
    changed,         \* compute_closure: local changed
    passes,          \* number of completed passes of compute_closure's while loop
    cover,           \* result of compute_minimal_cover
    tables,          \* result of decompose_3nf / decompose_bcnf
    nf,              \* result of assess_normal_form
    pc,              \* position inside compute_closure / the pipeline
    done,            \* names of the operations that have returned
    stack,           \* bcnf_decompose: the pending calls, innermost first
    foreign_keys,    \* result of compute_foreign_keys
    questions,       \* result of generate_questions
    target_nf,       \* normalize.py: the --target argument
    config,          \* normalize.py, transform.py: the loaded config
    strict,          \* transform.py: the --strict flag
    fs,              \* transform.py: what exists under the output directory
    results,         \* transform.py: results["tables"]
    next_table,      \* transform.py: index of the next table_config of the loop
    out,             \* normalize.py: what exists under its output directory
    grouped          \* check_fd: violations and total_groups of the groupby

synth_vars == <<stack, foreign_keys, questions, target_nf>>

replay_vars == <<config, strict, fs, results, next_table, out>>

check_vars == <<grouped>>

vars == <<df, columns, fds, candidate_keys, attrs, closure, changed, passes,
          cover, tables, nf, pc, done, synth_vars, replay_vars, check_vars>>

\* ---------------------------------------------------------------- helpers
Min(S) == CHOOSE x \in S : \A y \in S : x <= y

RECURSIVE SortedSeq(_)
SortedSeq(S) == IF S = {} THEN <<>> ELSE <<Min(S)>> \o SortedSeq(S \ {Min(S)})

Range(s) == {s[i] : i \in 1..Len(s)}

RemoveAt(s, i) == SubSeq(s, 1, i - 1) \o SubSeq(s, i + 1, Len(s))

\* all lists over S of length at most n
SeqsUpTo(S, n) == UNION {[1..k -> S] : k \in 0..n}

\* all enumerations of the finite set S without repetition (the orders in
\* which Python may iterate a set)
Orderings(S) == {s \in [1..Cardinality(S) -> S] : Range(s) = S}

\* an FD as the closure / cover / decomposition code reads it
FD(det, dep) == [determinant |-> det, dependent |-> dep]

\* every FD over Attrs obeying the data model: non-empty determinant, single
\* dependent outside the determinant
AllFDs == {f \in [determinant : (SUBSET Attrs) \ {{}}, dependent : Attrs] :
              f.dependent \notin f.determinant}

\* ------------------------------------------------- normalize.py: closure
\* lines 87-90: one FD applied to the accumulated set
ClosureApply(cl, fd) ==
    IF fd.determinant \subseteq cl /\ fd.dependent \notin cl
    THEN cl \cup {fd.dependent}
    ELSE cl

\* faulty variant of ClosurePass: the pass stops after the first FD of the list
RECURSIVE ClosurePass_firstOnly(_, _, _)
ClosurePass_firstOnly(cl, fdl, i) ==
    IF i > Len(fdl) \/ i > 1 THEN cl
    ELSE ClosurePass_firstOnly(ClosureApply(cl, fdl[i]), fdl, i + 1)

\* lines 86-90: one pass of "for fd in fds", from index i on
RECURSIVE ClosurePass(_, _, _)
ClosurePass(cl, fdl, i) ==
    IF i > Len(fdl) THEN cl
    ELSE ClosurePass(ClosureApply(cl, fdl[i]), fdl, i + 1)

\* lines 83-90: "while changed"; a pass changed the set iff it grew
RECURSIVE ClosureLoop(_, _)
ClosureLoop(cl, fdl) ==
    LET nxt == ClosurePass(cl, fdl, 1)
    IN IF nxt = cl THEN cl ELSE ClosureLoop(nxt, fdl)

\* faulty variant of compute_closure: "if" in place of "while", a single pass
compute_closure_onePass(as, fdl) == ClosurePass(as, fdl, 1)

compute_closure(as, fdl) == ClosureLoop(as, fdl)

\* lines 65-74: is_derivable carries its own copy of the closure loop
RECURSIVE DerivablePass(_, _, _)
DerivablePass(cl, fd_set, i) ==
    IF i > Len(fd_set) THEN cl
    ELSE LET other == fd_set[i]
             nxt == IF other.determinant \subseteq cl /\ other.dependent \notin cl
                    THEN cl \cup {other.dependent} ELSE cl
         IN DerivablePass(nxt, fd_set, i + 1)

RECURSIVE DerivableLoop(_, _)
DerivableLoop(cl, fd_set) ==
    LET nxt == DerivablePass(cl, fd_set, 1)
    IN IF nxt = cl THEN cl ELSE DerivableLoop(nxt, fd_set)

is_derivable(fd, fd_set) == fd.dependent \in DerivableLoop(fd.determinant, fd_set)

\* -------------------------------------------- normalize.py: minimal cover
\* lines 34-37: determinants sorted, extra keys (confidence, status) dropped
CoverStep1(fdl) == [i \in 1..Len(fdl) |-> FD(fdl[i].determinant, fdl[i].dependent)]

\* faulty variant of CoverStep2: no FD is dropped
CoverStep2_keepAll(minimal, i) == minimal

\* lines 40-45: an FD is kept iff it is not derivable from all the OTHER FDs
\* of the input list (minimal[:i] + minimal[i+1:]), not of the running result
RECURSIVE CoverStep2(_, _)
CoverStep2(minimal, i) ==
    IF i > Len(minimal) THEN <<>>
    ELSE (IF is_derivable(minimal[i], RemoveAt(minimal, i)) THEN <<>> ELSE <<minimal[i]>>)
         \o CoverStep2(minimal, i + 1)

\* faulty variant of ReduceDeterminant: the first attribute is dropped untested
ReduceDeterminant_untested(fd, det, result, k) == fd.determinant \ {det[1]}

\* lines 52-57: walk the sorted determinant, take the first attribute whose
\* removal keeps the FD derivable from result, then break
RECURSIVE ReduceDeterminant(_, _, _, _)
ReduceDeterminant(fd, det, result, k) ==
    IF k > Len(det) THEN fd.determinant
    ELSE LET reduced_det == fd.determinant \ {det[k]}
         IN IF is_derivable(FD(reduced_det, fd.dependent), result)
            THEN reduced_det
            ELSE ReduceDeterminant(fd, det, result, k + 1)

\* lines 48-58
CoverStep3(result) ==
    [i \in 1..Len(result) |->
        LET fd == result[i]
        IN FD(IF Cardinality(fd.determinant) > 1
              THEN ReduceDeterminant(fd, SortedSeq(fd.determinant), result, 1)
              ELSE fd.determinant,
              fd.dependent)]

compute_minimal_cover(fdl) == CoverStep3(CoverStep2(CoverStep1(fdl), 1))

\* ------------------------------------------------ normalize.py: 3NF synthesis
\* Column names: attribute 2k-1 is the bare stem Stems[k], attribute 2k is
\* that stem followed by "_id"; a name is the list of its pieces.
Stems == <<"a", "b", "c", "e", "f">>

AttrName(a) == IF a % 2 = 0 THEN <<Stems[a \div 2], "_id">> ELSE <<Stems[(a + 1) \div 2]>>

\* str.replace("_id", ""): every "_id" piece disappears
StripId(name) == SelectSeq(name, LAMBDA piece : piece # "_id")

\* lines 218-225
generate_table_name(key_cols, dep_cols) ==
    IF Len(dep_cols) = 1 THEN AttrName(dep_cols[1]) \o <<"s">>
    ELSE IF Len(key_cols) = 1 THEN StripId(AttrName(key_cols[1])) \o <<"s">>
    ELSE IF Len(key_cols) = 0 THEN <<>>
    ELSE AttrName(key_cols[1]) \o <<"_">> \o AttrName(key_cols[2])

\* lines 100-103: the keys of fd_groups in insertion order
RECURSIVE GroupKeys(_, _)
GroupKeys(minimal_cover, i) ==
    IF i > Len(minimal_cover) THEN <<>>
    ELSE (IF \E j \in 1..(i - 1) : minimal_cover[j].determinant = minimal_cover[i].determinant
          THEN <<>> ELSE <<minimal_cover[i].determinant>>)
         \o GroupKeys(minimal_cover, i + 1)

\* lines 100-103: fd_groups[det], the dependents in list order
RECURSIVE GroupDeps(_, _, _)
GroupDeps(minimal_cover, det, i) ==
    IF i > Len(minimal_cover) THEN <<>>
    ELSE (IF minimal_cover[i].determinant = det THEN <<minimal_cover[i].dependent>> ELSE <<>>)
         \o GroupDeps(minimal_cover, det, i + 1)

NoSourceFd == [determinant |-> <<>>, dependents |-> <<>>, none |-> TRUE]

\* lines 109-117: one table per FD group
GroupTables(minimal_cover) ==
    LET keys == GroupKeys(minimal_cover, 1)
    IN [g \in 1..Len(keys) |->
           LET det == SortedSeq(keys[g])
               deps == GroupDeps(minimal_cover, keys[g], 1)
           IN [name |-> generate_table_name(det, deps),
               columns |-> det \o deps,
               primary_key |-> det,
               source_fd |-> [determinant |-> det, dependents |-> deps, none |-> FALSE]]]

TableCols(t) == Range(t.columns)

\* lines 95-147.  list(key_cols) and extend(uncovered) walk a Python set, so
\* the result is any of the lists those walks can give.
decompose_3nf(cols, fdl, cks) ==
    LET minimal_cover == compute_minimal_cover(fdl)
        group_tables == GroupTables(minimal_cover)
        covered_attrs == UNION {TableCols(group_tables[g]) : g \in 1..Len(group_tables)}
        all_cols == Range(cols)
        key_cols == IF Len(cks) > 0 THEN Range(cks[1].columns) ELSE {}
        add_keys == Len(cks) > 0 /\ ~(key_cols \subseteq covered_attrs)
        uncovered == all_cols \ covered_attrs
    IN {  LET with_keys ==
                IF add_keys
                THEN Append(group_tables,
                            [name |-> <<"main_keys">>, columns |-> ko,
                             primary_key |-> ko, source_fd |-> NoSourceFd])
                ELSE group_tables
          IN IF uncovered # {} /\ Len(cks) > 0
             THEN IF add_keys
                  THEN [with_keys EXCEPT ![Len(with_keys)].columns = @ \o uo]
                  ELSE Append(with_keys,
                              [name |-> <<"main">>, columns |-> cks[1].columns \o uo,
                               primary_key |-> cks[1].columns, source_fd |-> NoSourceFd])
             ELSE with_keys
        : ko \in Orderings(key_cols), uo \in Orderings(uncovered) }

\* ------------------------------------------------- analyze.py: discovery
\* A table is a list of rows, a row a list of NumAttrs cell values.  The
\* value 0 is a null (NaN); an even value above 0 stands for a string
\* holding one of the delimiters , ; | and an odd value for a plain atom.
Values == 0..NumVals

IsNull(v) == v = 0

HasDelimiter(v) == v > 0 /\ v % 2 = 0

AllRows == [1..NumAttrs -> Values]

\* df[c] without its nulls
NonNull(tbl, c) == SelectSeq([r \in 1..Len(tbl) |-> tbl[r][c]], LAMBDA v : ~IsNull(v))

\* Series.nunique(): distinct non-null values
NUnique(tbl, c) == Cardinality(Range(NonNull(tbl, c)))

\* Series.isna().any()
HasNull(tbl, c) == \E r \in 1..Len(tbl) : IsNull(tbl[r][c])

\* round(x, 4) of the fraction num/den, in ten-thousandths, ties to even
Round4(num, den) ==
    LET q == (num * 10000) \div den
        r == (num * 10000) % den
    IN IF 2 * r > den \/ (2 * r = den /\ q % 2 = 1) THEN q + 1 ELSE q

\* the confidence 1.0 of a confirmed FD, in ten-thousandths
One == 10000

\* the default confidence_threshold 0.8, in ten-thousandths
Threshold == 8000

\* lines 91-98: the result record from the counts of the groupby
GroupResult(n_violations, n_groups) ==
    [holds |-> n_violations = 0,
     confidence |-> IF n_groups > 0 THEN Round4(n_groups - n_violations, n_groups) ELSE 0,
     violations |-> n_violations,
     total_groups |-> n_groups]

\* lines 74-98.  Confidence is kept in ten-thousandths (10000 is 1.0); the
\* early return of line 85 carries no total_groups, modelled as 0.
check_fd(tbl, determinant, dependent) ==
    LET used == determinant \cup {dependent}
        df_clean == SelectSeq(tbl, LAMBDA row : \A c \in used : ~IsNull(row[c]))
        key(row) == [c \in determinant |-> row[c]]
        groups == {key(df_clean[r]) : r \in 1..Len(df_clean)}
        nunique(g) == Cardinality({df_clean[r][dependent] :
                                      r \in {x \in 1..Len(df_clean) : key(df_clean[x]) = g}})
        violations == Cardinality({g \in groups : nunique(g) > 1})
        total_groups == Cardinality(groups)
    IN IF Len(df_clean) = 0
       THEN [holds |-> FALSE, confidence |-> 0, violations |-> 0, total_groups |-> 0]
       ELSE GroupResult(violations, total_groups)

\* lines 114-119 / 139-144: the FD record appended to fds
FoundFD(determinant, dependent, result) ==
    [determinant |-> determinant, dependent |-> dependent,
     holds |-> result.holds, confidence |-> result.confidence,
     violations |-> result.violations, total_groups |-> result.total_groups,
     status |-> IF result.confidence = One THEN "confirmed" ELSE "needs_review"]

\* lines 107-119: single-column determinants, det_col outer, dep_col inner
SingleFDs(tbl, cols) ==
    LET n == Len(cols)
        cand == [k \in 1..(n * n) |->
                    LET det_col == cols[((k - 1) \div n) + 1]
                        dep_col == cols[((k - 1) % n) + 1]
                    IN [det_col |-> det_col, dep_col |-> dep_col,
                        fd |-> FoundFD({det_col}, dep_col, check_fd(tbl, {det_col}, dep_col))]]
        kept == SelectSeq(cand, LAMBDA c : c.det_col # c.dep_col /\ c.fd.confidence >= Threshold)
    IN [k \in 1..Len(kept) |-> kept[k].fd]

\* lines 122-123; evaluated only when the table has rows
HighCardCols(tbl, cols) == SelectSeq(cols, LAMBDA c : 2 * NUnique(tbl, c) > Len(tbl))

\* lines 125-144: pairs of high-cardinality columns in combinations() order
CompositeFDs(tbl, cols, single) ==
    LET h == HighCardCols(tbl, cols)
        m == Len(h)
        n == Len(cols)
        cand == [k \in 1..(m * m * n) |->
                    LET i == ((k - 1) \div (m * n)) + 1
                        j == (((k - 1) \div n) % m) + 1
                        dep_col == cols[((k - 1) % n) + 1]
                    IN [i |-> i, j |-> j, dep_col |-> dep_col,
                        fd |-> FoundFD({h[i], h[j]}, dep_col,
                                       IF i < j /\ dep_col \notin {h[i], h[j]}
                                       THEN check_fd(tbl, {h[i], h[j]}, dep_col)
                                       ELSE [holds |-> FALSE, confidence |-> 0,
                                             violations |-> 0, total_groups |-> 0])]]
        single_determines(c) ==
            \E f \in 1..Len(single) :
                /\ single[f].confidence = One
                /\ single[f].determinant \in {{h[c.i]}, {h[c.j]}}
                /\ single[f].dependent = c.dep_col
        kept == SelectSeq(cand, LAMBDA c : /\ c.i < c.j
                                           /\ c.dep_col \notin {h[c.i], h[c.j]}
                                           /\ c.fd.confidence >= Threshold
                                           /\ ~single_determines(c))
    IN [k \in 1..Len(kept) |-> kept[k].fd]

\* lines 101-146.  Line 123 divides by len(df): on a table with columns and
\* no rows detect_fds raises ZeroDivisionError.
detect_fds(tbl, cols) ==
    LET single == SingleFDs(tbl, cols)
    IN IF Len(tbl) = 0 /\ Len(cols) > 0
       THEN [raised |-> TRUE, fds |-> <<>>]
       ELSE [raised |-> FALSE, fds |-> single \o CompositeFDs(tbl, cols, single)]

\* ------------------------------------------- analyze.py: candidate keys
\* the FDs with confidence == 1.0
Confirmed(fdl) == SelectSeq(fdl, LAMBDA fd : fd.confidence = One)

\* lines 155-156
MustBeInKey(cols, fdl) ==
    Range(cols) \ {Confirmed(fdl)[i].dependent : i \in 1..Len(Confirmed(fdl))}

\* lines 159-169
MustKey(cols, fdl) ==
    LET must_be_in_key == MustBeInKey(cols, fdl)
        conf == Confirmed(fdl)
        determined == {conf[i].dependent :
                          i \in {x \in 1..Len(conf) : conf[x].determinant \subseteq must_be_in_key}}
    IN IF must_be_in_key # {} /\ (determined \cup must_be_in_key) = Range(cols)
       THEN <<[columns |-> SortedSeq(must_be_in_key), is_minimal |-> TRUE]>>
       ELSE <<>>

\* lines 172-178, walking the columns in the order ord
RECURSIVE UniqueKeys(_, _, _, _)
UniqueKeys(tbl, ord, cks, i) ==
    IF i > Len(ord) THEN cks
    ELSE LET col == ord[i]
             add == /\ NUnique(tbl, col) = Len(tbl)
                    /\ ~HasNull(tbl, col)
                    /\ ~\E k \in 1..Len(cks) : Range(cks[k].columns) = {col}
         IN UniqueKeys(tbl, ord,
                       IF add THEN Append(cks, [columns |-> <<col>>, is_minimal |-> TRUE])
                       ELSE cks,
                       i + 1)

\* lines 149-180.  "for col in columns" walks a Python set, so the result is
\* any of the lists the possible walks give.
find_candidate_keys(tbl, cols, fdl) ==
    {UniqueKeys(tbl, ord, MustKey(cols, fdl), 1) : ord \in Orderings(Range(cols))}

\* ---------------------------------------------- analyze.py: normal form
\* lines 188-190
KeyCols(cks) == UNION {Range(cks[k].columns) : k \in 1..Len(cks)}

\* lines 196-199: more than 30% of a column's non-null values hold a delimiter
\* (the mean of an empty sample is NaN, which is not > 0.3)
Violations1NF(tbl, cols) ==
    LET flagged(c) ==
            LET sample == NonNull(tbl, c)
            IN 10 * Len(SelectSeq(sample, HasDelimiter)) > 3 * Len(sample)
        hit == SelectSeq(cols, flagged)
    IN [k \in 1..Len(hit) |-> [kind |-> "non_atomic", column |-> hit[k]]]

\* lines 202-209
Violations2NF(confirmed_fds, cks) ==
    LET n == Len(confirmed_fds)
        cand == [k \in 1..(Len(cks) * n) |->
                    [ck |-> cks[((k - 1) \div n) + 1], fd |-> confirmed_fds[((k - 1) % n) + 1]]]
        hit == SelectSeq(cand, LAMBDA c :
                   /\ Len(c.ck.columns) > 1
                   /\ c.fd.determinant \subseteq Range(c.ck.columns)
                   /\ c.fd.determinant # Range(c.ck.columns)
                   /\ c.fd.dependent \notin Range(c.ck.columns))
    IN [k \in 1..Len(hit) |->
           [kind |-> "partial", determinant |-> hit[k].fd.determinant,
            dependent |-> hit[k].fd.dependent]]

\* lines 212-217
Violations3NF(confirmed_fds, cks) ==
    LET hit == SelectSeq(confirmed_fds, LAMBDA fd :
                   /\ fd.determinant \cap KeyCols(cks) = {}
                   /\ fd.dependent \notin KeyCols(cks))
    IN [k \in 1..Len(hit) |->
           [kind |-> "transitive", determinant |-> hit[k].determinant,
            dependent |-> hit[k].dependent]]

\* lines 220-226
ViolationsBCNF(confirmed_fds, cks) ==
    LET hit == SelectSeq(confirmed_fds, LAMBDA fd :
                   ~\E k \in 1..Len(cks) : Range(cks[k].columns) \subseteq fd.determinant)
    IN [k \in 1..Len(hit) |->
           [kind |-> "non_superkey", determinant |-> hit[k].determinant,
            dependent |-> hit[k].dependent]]

\* faulty variant of CurrentNF: the violated level itself is reported, not
\* the level below it
CurrentNF_violatedLevel(violations) ==
    IF Len(violations["1NF"]) > 0 THEN "1NF"
    ELSE IF Len(violations["2NF"]) > 0 THEN "2NF"
    ELSE IF Len(violations["3NF"]) > 0 THEN "3NF"
    ELSE "BCNF"

\* lines 229-238
CurrentNF(violations) ==
    IF Len(violations["1NF"]) > 0 THEN "UNF"
    ELSE IF Len(violations["2NF"]) > 0 THEN "1NF"
    ELSE IF Len(violations["3NF"]) > 0 THEN "2NF"
    ELSE IF Len(violations["BCNF"]) > 0 THEN "3NF"
    ELSE "BCNF"

NFLevels == {"1NF", "2NF", "3NF", "BCNF"}

\* lines 183-243
assess_normal_form(tbl, cols, fdl, cks) ==
    LET confirmed_fds == Confirmed(fdl)
        violations == [lvl \in NFLevels |->
                          CASE lvl = "1NF" -> Violations1NF(tbl, cols)
                            [] lvl = "2NF" -> Violations2NF(confirmed_fds, cks)
                            [] lvl = "3NF" -> Violations3NF(confirmed_fds, cks)
                            [] lvl = "BCNF" -> ViolationsBCNF(confirmed_fds, cks)]
    IN [current_normal_form |-> CurrentNF(violations),
        violations |-> [lvl \in {l \in NFLevels : Len(violations[l]) > 0} |-> violations[lvl]]]

\* ------------------------------------------- normalize.py: BCNF decomposition
\* lines 160-162 and 203-204: the FDs lying inside the column set
RelevantFds(col_set, fdl) ==
    SelectSeq(fdl, LAMBDA fd : fd.determinant \subseteq col_set /\ fd.dependent \in col_set)

\* lines 153-155
is_superkey(det, all_cols, fdl) == all_cols \subseteq compute_closure(det, fdl)

\* lines 164-166: index of the first relevant FD whose determinant is no
\* superkey of the column set, 0 when there is none
FirstViolation_firstOnly(col_set, relevant_fds, i) ==
    IF i > Len(relevant_fds) THEN 0
    ELSE IF ~is_superkey(relevant_fds[i].determinant, col_set, relevant_fds) THEN i
    ELSE 0

RECURSIVE FirstViolation(_, _, _)
FirstViolation(col_set, relevant_fds, i) ==
    IF i > Len(relevant_fds) THEN 0
    ELSE IF ~is_superkey(relevant_fds[i].determinant, col_set, relevant_fds) THEN i
    ELSE FirstViolation(col_set, relevant_fds, i + 1)

\* line 168
SplitR1(fd) == fd.determinant \cup {fd.dependent}

SplitR2_noDeterminant(col_set, fd) == (col_set \ {fd.dependent}) \ fd.determinant

\* line 169: (col_set - {dependent}) | det
SplitR2(col_set, fd) == (col_set \ {fd.dependent}) \cup fd.determinant

\* lines 198-200: index of the first candidate key inside the column set
RECURSIVE FirstKeyInside(_, _, _)
FirstKeyInside(col_set, cks, k) ==
    IF k > Len(cks) THEN 0
    ELSE IF Range(cks[k].columns) \subseteq col_set THEN k
    ELSE FirstKeyInside(col_set, cks, k + 1)

FirstClosing_none(col_set, relevant_fds, i) == 0

\* lines 207-212: index of the first relevant FD whose determinant closes to
\* the column set
RECURSIVE FirstClosing(_, _, _)
FirstClosing(col_set, relevant_fds, i) ==
    IF i > Len(relevant_fds) THEN 0
    ELSE IF col_set \subseteq compute_closure(relevant_fds[i].determinant, relevant_fds) THEN i
    ELSE FirstClosing(col_set, relevant_fds, i + 1)

\* lines 195-215.  list(det) walks a Python set, so the result is any of the
\* lists that walk can give.
find_key(cols, fdl, cks) ==
    LET col_set == Range(cols)
        k == FirstKeyInside(col_set, cks, 1)
        relevant_fds == RelevantFds(col_set, fdl)
        i == FirstClosing(col_set, relevant_fds, 1)
    IN IF k > 0 THEN {cks[k].columns}
       ELSE IF i > 0 THEN Orderings(relevant_fds[i].determinant)
       ELSE {cols}

\* line 189: the columns outside the primary key, in column order
NonKeyCols(t) == SelectSeq(t.columns, LAMBDA c : c \notin Range(t.primary_key))

\* lines 186-190
NameTables(tbls) ==
    [t \in 1..Len(tbls) |->
        [tbls[t] EXCEPT !.name = IF Len(tbls) > 1
                                 THEN generate_table_name(tbls[t].primary_key, NonKeyCols(tbls[t]))
                                 ELSE <<"main">>]]

\* a row cut down to the columns T
Project(r, T) == [a \in T |-> r[a]]

\* lines 390-392: df[table["columns"]].drop_duplicates()
Projection(inst, T) == {Project(r, T) : r \in inst}


\* ------------------------------------------------ normalize.py: foreign keys
\* lines 337-348: the edges from table t to table o, one per non-key column
\* of t that is the whole primary key of o
FkPair(tbls, t, o) ==
    LET other_pk == Range(tbls[o].primary_key)
        hits == SelectSeq(NonKeyCols(tbls[t]),
                          LAMBDA col : col \in other_pk /\ Cardinality(other_pk) = 1)
    IN [k \in 1..Len(hits) |->
           [child_table |-> tbls[t].name, column |-> hits[k],
            parent_table |-> tbls[o].name, parent_column |-> hits[k]]]

\* lines 333-348: the inner loop over other_table, skipping every table that
\* has the name of table t
RECURSIVE FkOthers(_, _, _)
FkOthers(tbls, t, o) ==
    IF o > Len(tbls) THEN <<>>
    ELSE (IF tbls[o].name = tbls[t].name THEN <<>> ELSE FkPair(tbls, t, o))
         \o FkOthers(tbls, t, o + 1)

\* lines 329-348: the outer loop over table
RECURSIVE FkTables(_, _)
FkTables(tbls, t) ==
    IF t > Len(tbls) THEN <<>> ELSE FkOthers(tbls, t, 1) \o FkTables(tbls, t + 1)

\* lines 325-349
compute_foreign_keys(tbls) == FkTables(tbls, 1)


\* ------------------------------------------------ analyze.py: questions
\* lines 250-261: one fd_confirmation question per FD that needs review.
\* Lines 263-290 ask about columns whose names hold "zip_code", "dept_id",
\* "country" and the like next to a matching dependent name with no FD
\* detected between them; no column of the model is such a pair.
generate_questions(fdl) ==
    LET review == SelectSeq(fdl, LAMBDA fd : fd.status = "needs_review")
    IN [k \in 1..Len(review) |->
           [type |-> "fd_confirmation",
            fd |-> FD(review[k].determinant, review[k].dependent),
            confidence |-> review[k].confidence,
            violations |-> review[k].violations]]

\* ------------------------------------------------ normalize.py: normalize
ConfirmedFds_all(fdl) == fdl

\* lines 365-366
ConfirmedFds(fdl) ==
    SelectSeq(fdl, LAMBDA fd : fd.status = "confirmed" \/ fd.confidence = One)

\* lines 369-375: the values of --target; "4NF" stands for every value that
\* is neither 3NF nor BCNF
Targets == {"3NF", "BCNF", "4NF"}

\* str.upper() on the values of --target the model uses
Upper(s) == CASE s = "3nf" -> "3NF"
              [] s \in {"bcnf", "Bcnf"} -> "BCNF"
              [] s = "bc" -> "BC"
              [] s = "4nf" -> "4NF"
              [] OTHER -> s

Is3NFTarget_any(target) == TRUE

\* lines 369, 371: the two tests of the dispatch
Is3NFTarget(target) == Upper(target) \in {"3NF", "3"}

IsBCNFTarget(target) == Upper(target) \in {"BCNF", "BC"}

\* values of --target in every spelling lines 369-375 tell apart
TargetArgs == {"3NF", "3nf", "3", "BCNF", "bcnf", "Bcnf", "BC", "bc", "4NF", "4nf", "2NF", "NF3"}


\* ------------------------------------------------ transform.py: replay
\* The input of transform may hold columns the analysis never saw.  ExtraCol
\* is one such column, named "is_Missing"; every other column has the name
\* AttrName gives it.
ExtraCol == 2 * Len(Stems) + 1

ColumnName(c) == IF c = ExtraCol THEN <<"is_", "Missing">> ELSE AttrName(c)

\* the text of a set of column names inside an f-string, as its pieces
RECURSIVE NamesOf(_)
NamesOf(cols) == IF cols = <<>> THEN <<>> ELSE ColumnName(Head(cols)) \o NamesOf(Tail(cols))

\* normalize.py lines 308-322
generate_transform_config(tbls, fks, original_columns) ==
    [original_columns |-> original_columns,
     tables |-> [t \in 1..Len(tbls) |->
                    [name |-> tbls[t].name, columns |-> tbls[t].columns,
                     primary_key |-> tbls[t].primary_key]],
     foreign_keys |-> fks]

\* lines 34-49: the messages, each the list of the pieces of its text
validate_input(df_columns, cfg) ==
    LET expected_cols == Range(cfg.original_columns)
        actual_cols == Range(df_columns)
        missing == expected_cols \ actual_cols
        extra == actual_cols \ expected_cols
    IN (IF missing # {}
        THEN << <<"Missing", " columns: ">> \o NamesOf(SortedSeq(missing)) >>
        ELSE <<>>)
       \o (IF extra # {}
           THEN << <<"Extra", " columns (will be ignored): ">> \o NamesOf(SortedSeq(extra)) >>
           ELSE <<>>)

\* "Missing" in e: no piece of a name or of a message holds part of the
\* word, so the word is in the text exactly when it is one of the pieces
HasMissing(e) == \E i \in 1..Len(e) : e[i] = "Missing"

StrictAbort_never(is_strict, errors) == FALSE

\* line 66
StrictAbort(is_strict, errors) ==
    is_strict /\ \E k \in 1..Len(errors) : HasMissing(errors[k])

\* line 85
available_cols(table_columns, df_columns) ==
    SelectSeq(table_columns, LAMBDA c : c \in Range(df_columns))

\* lines 92-99: the file written for a table; drop_duplicates leaves each
\* row once, and the file is modelled as the set of its rows
TableFile(tbl, table_config) ==
    [columns |-> table_config.columns,
     rows |-> Projection(Range(tbl), Range(table_config.columns))]

\* line 95: sort_values(by=primary_key) on a frame that holds a column of
\* the primary key twice; pandas raises ValueError, the label is not unique
AmbiguousSortLabel(table_config) ==
    \E i \in 1..Len(table_config.primary_key) :
        Cardinality({j \in 1..Len(table_config.columns) :
                        table_config.columns[j] = table_config.primary_key[i]}) > 1

\* lines 124-148, one foreign key: both files exist and a column the check
\* reads is not in its file, so that the lookup raises KeyError
FkLookupFails(files, fk) ==
    /\ fk.child_table \in DOMAIN files
    /\ fk.parent_table \in DOMAIN files
    /\ \/ fk.column \notin Range(files[fk.child_table].columns)
       \/ fk.parent_column \notin Range(files[fk.parent_table].columns)


\* ============================================================ Spec
\* compute_closure, run pass by pass on every FD list of at most
\* MaxClosureFds FDs over Attrs and every attribute subset.
NoSynth == stack = <<>> /\ foreign_keys = <<>> /\ questions = <<>> /\ target_nf = ""

NoFiles == [dir |-> FALSE, files |-> <<>>]

NoGroups == [violations |-> 0, total_groups |-> 0]

NoOutput == [dir |-> FALSE, files |-> <<>>, written |-> {}]

NoReplay == /\ config = <<>> /\ strict = FALSE /\ fs = NoFiles
            /\ results = <<>> /\ next_table = 0 /\ out = NoOutput

Idle == /\ df = <<>> /\ columns = <<>> /\ candidate_keys = <<>>
        /\ tables = <<>> /\ nf = <<>> /\ cover = <<>>
        /\ NoSynth /\ NoReplay

Init ==
    /\ fds \in SeqsUpTo(AllFDs, MaxClosureFds)
    /\ attrs \in SUBSET Attrs
    /\ closure = attrs            \* line 81
    /\ changed = TRUE             \* line 83
    /\ passes = 0
    /\ pc = "while"
    /\ done = {}
    /\ grouped = NoGroups
    /\ Idle

\* lines 84-90: one pass of the while loop
ClosureWhileBody ==
    /\ pc = "while" /\ changed
    /\ closure' = ClosurePass(closure, fds, 1)
    /\ changed' = (closure' # closure)
    /\ passes' = passes + 1
    /\ UNCHANGED <<df, columns, fds, candidate_keys, attrs, cover, tables, nf, pc, done, synth_vars, replay_vars, check_vars>>

\* line 92
ClosureReturn ==
    /\ pc = "while" /\ ~changed
    /\ pc' = "return"
    /\ done' = done \cup {"compute_closure"}
    /\ UNCHANGED <<df, columns, fds, candidate_keys, attrs, closure, changed,
                   passes, cover, tables, nf, synth_vars, replay_vars, check_vars>>

Next == ClosureWhileBody \/ ClosureReturn

Spec == Init /\ [][Next]_vars

\* ============================================================ SpecCover
\* compute_minimal_cover on every FD list of at most MaxFds FDs over Attrs.
NoClosureRun == /\ attrs = {} /\ closure = {} /\ changed = FALSE /\ passes = 0

InitCover ==
    /\ fds \in SeqsUpTo(AllFDs, MaxFds)
    /\ df = <<>> /\ columns = <<>> /\ candidate_keys = <<>>
    /\ tables = <<>> /\ nf = <<>> /\ cover = <<>>
    /\ NoClosureRun
    /\ NoSynth /\ NoReplay
    /\ pc = "compute_minimal_cover"
    /\ done = {}
    /\ grouped = NoGroups

\* lines 29-60
MinimalCover ==
    /\ pc = "compute_minimal_cover"
    /\ cover' = compute_minimal_cover(fds)
    /\ pc' = "return"
    /\ done' = done \cup {"compute_minimal_cover"}
    /\ UNCHANGED <<df, columns, fds, candidate_keys, attrs, closure, changed,
                   passes, tables, nf, synth_vars, replay_vars, check_vars>>

NextCover == MinimalCover

SpecCover == InitCover /\ [][NextCover]_vars

\* ============================================================ SpecSynth
\* decompose_3nf on the columns 1..NumAttrs, every list of at most MaxFds
\* confirmed FDs over them, and every candidate-key list that is empty or
\* holds at most MaxKeys distinct candidate keys of those FDs.
Closes(K, cols, fdl) == Range(cols) \subseteq compute_closure(K, fdl)

IsCandidateKey(K, cols, fdl) ==
    /\ K \subseteq Range(cols)
    /\ Closes(K, cols, fdl)
    /\ \A K2 \in SUBSET K : K2 # K => ~Closes(K2, cols, fdl)

CandidateKeyLists(cols, fdl) ==
    {cks \in SeqsUpTo({[columns |-> SortedSeq(K), is_minimal |-> TRUE] :
                          K \in {K \in SUBSET Range(cols) : IsCandidateKey(K, cols, fdl)}},
                      MaxKeys) :
        \A i, j \in 1..Len(cks) : i # j => cks[i] # cks[j]}

InitSynth ==
    /\ columns = SortedSeq(Attrs)
    /\ fds \in SeqsUpTo(AllFDs, MaxFds)
    /\ candidate_keys \in CandidateKeyLists(columns, fds)
    /\ df = <<>> /\ tables = <<>> /\ nf = <<>> /\ cover = <<>>
    /\ NoClosureRun
    /\ NoSynth /\ NoReplay
    /\ pc = "decompose_3nf"
    /\ done = {}
    /\ grouped = NoGroups

\* lines 95-147
Decompose3NF ==
    /\ pc = "decompose_3nf"
    /\ tables' \in decompose_3nf(columns, fds, candidate_keys)
    /\ cover' = compute_minimal_cover(fds)
    /\ pc' = "return"
    /\ done' = done \cup {"decompose_3nf"}
    /\ UNCHANGED <<df, columns, fds, candidate_keys, attrs, closure, changed,
                   passes, nf, synth_vars, replay_vars, check_vars>>

\* line 380: normalize goes on after the decomposition has returned
ComputeForeignKeys ==
    /\ pc = "return"
    /\ done \cap {"decompose_3nf", "decompose_bcnf"} # {}
    /\ "compute_foreign_keys" \notin done
    /\ foreign_keys' = compute_foreign_keys(tables)
    /\ done' = done \cup {"compute_foreign_keys"}
    /\ UNCHANGED <<df, columns, fds, candidate_keys, attrs, closure, changed, passes,
                   cover, tables, nf, pc, stack, questions, target_nf, replay_vars, check_vars>>

NextSynth == Decompose3NF \/ ComputeForeignKeys

SpecSynth == InitSynth /\ [][NextSynth]_vars

\* ============================================================ SpecAnalyze
\* analyze(): detect_fds, find_candidate_keys and assess_normal_form on every
\* table of at most MaxRows rows over the columns 1..NumAttrs.  None of the
\* three reads the order of the rows, so each table is listed once, with its
\* rows in ascending order.
RECURSIVE RowCode(_, _)
RowCode(row, c) == IF c > Len(row) THEN 0 ELSE row[c] + (NumVals + 1) * RowCode(row, c + 1)

AllTables ==
    {t \in SeqsUpTo(AllRows, MaxRows) :
        \A r \in 1..(Len(t) - 1) : RowCode(t[r], 1) <= RowCode(t[r + 1], 1)}

InitAnalyze ==
    /\ df \in AllTables
    /\ columns = SortedSeq(Attrs)
    /\ fds = <<>> /\ candidate_keys = <<>>
    /\ tables = <<>> /\ nf = <<>> /\ cover = <<>>
    /\ NoClosureRun
    /\ NoSynth /\ NoReplay
    /\ pc = "detect_fds"
    /\ done = {}
    /\ grouped = NoGroups

\* analyze.py line 307
DetectFds ==
    /\ pc = "detect_fds"
    /\ LET res == detect_fds(df, columns)
       IN /\ fds' = res.fds
          /\ pc' = IF res.raised THEN "raised" ELSE "find_candidate_keys"
          /\ done' = IF res.raised THEN done ELSE done \cup {"detect_fds"}
    /\ UNCHANGED <<df, columns, candidate_keys, attrs, closure, changed, passes,
                   cover, tables, nf, synth_vars, replay_vars, check_vars>>

\* analyze.py line 310
FindCandidateKeys ==
    /\ pc = "find_candidate_keys"
    /\ candidate_keys' \in find_candidate_keys(df, columns, fds)
    /\ pc' = "assess_normal_form"
    /\ done' = done \cup {"find_candidate_keys"}
    /\ UNCHANGED <<df, columns, fds, attrs, closure, changed, passes, cover, tables, nf, synth_vars, replay_vars, check_vars>>

\* analyze.py line 313
AssessNormalForm ==
    /\ pc = "assess_normal_form"
    /\ nf' = assess_normal_form(df, columns, fds, candidate_keys)
    /\ pc' = "return"
    /\ done' = done \cup {"assess_normal_form"}
    /\ UNCHANGED <<df, columns, fds, candidate_keys, attrs, closure, changed,
                   passes, cover, tables, synth_vars, replay_vars, check_vars>>

NextAnalyze == DetectFds \/ FindCandidateKeys \/ AssessNormalForm

SpecAnalyze == InitAnalyze /\ [][NextAnalyze]_vars

\* ============================================================ SpecBcnf
\* decompose_bcnf on the columns 1..NumBcnfAttrs, every list of at most
\* MaxBcnfFds FDs over them, and every candidate-key list that is empty or
\* holds at most MaxKeys distinct candidate keys of those FDs.  The recursion
\* of bcnf_decompose is run call by call: stack holds the calls still to be
\* made, the left call of a split above the right one.
BcnfAttrs == 1..NumBcnfAttrs

\* normalize hands over whatever FD records the config file lists, so next to
\* the FDs with the dependent outside the determinant the lists hold the FDs
\* a -> a
BcnfFDs == {f \in [determinant : (SUBSET BcnfAttrs) \ {{}}, dependent : BcnfAttrs] :
               f.dependent \notin f.determinant \/ f.determinant = {f.dependent}}

\* a call of bcnf_decompose.  Below the first call the argument cols is
\* list(set), a list in any order, read only as set(cols) until line 179
\* returns it: the call keeps the set and the order is drawn there.
Call(col_set, fdl, depth) == [cols |-> col_set, fds |-> fdl, depth |-> depth]

\* the lists the argument cols of a call can be
ColsOf(call, cols) == IF call.depth = 0 THEN {cols} ELSE Orderings(call.cols)

InitBcnf ==
    /\ columns = SortedSeq(BcnfAttrs)
    /\ fds \in SeqsUpTo(BcnfFDs, MaxBcnfFds)
    /\ candidate_keys \in CandidateKeyLists(columns, fds)
    /\ stack = <<Call(Range(columns), fds, 0)>>          \* line 183
    /\ df = <<>> /\ tables = <<>> /\ nf = <<>> /\ cover = <<>>
    /\ foreign_keys = <<>> /\ questions = <<>> /\ target_nf = "BCNF"
    /\ NoClosureRun /\ NoReplay
    /\ pc = "bcnf_decompose"
    /\ done = {}
    /\ grouped = NoGroups

\* lines 158-175: the call on top of the stack finds a violating FD and
\* calls itself on the two halves
BcnfSplit ==
    /\ pc = "bcnf_decompose" /\ stack # <<>>
    /\ LET call == Head(stack)
           relevant_fds == RelevantFds(call.cols, call.fds)
           i == FirstViolation(call.cols, relevant_fds, 1)
       IN /\ i > 0
          /\ call.depth < MaxDepth
          /\ stack' = <<Call(SplitR1(relevant_fds[i]), relevant_fds, call.depth + 1),
                        Call(SplitR2(call.cols, relevant_fds[i]), relevant_fds, call.depth + 1)>>
                      \o Tail(stack)
    /\ UNCHANGED <<df, columns, fds, candidate_keys, attrs, closure, changed, passes,
                   cover, tables, nf, pc, done, foreign_keys, questions, target_nf, replay_vars, check_vars>>

\* lines 170-171: the nested calls exceed the interpreter's recursion limit,
\* for which MaxDepth stands, and RecursionError leaves decompose_bcnf
BcnfRecursionError ==
    /\ pc = "bcnf_decompose" /\ stack # <<>>
    /\ LET call == Head(stack)
           relevant_fds == RelevantFds(call.cols, call.fds)
       IN /\ FirstViolation(call.cols, relevant_fds, 1) > 0
          /\ call.depth >= MaxDepth
    /\ pc' = "RecursionError"
    /\ UNCHANGED <<df, columns, fds, candidate_keys, attrs, closure, changed, passes,
                   cover, tables, nf, done, synth_vars, replay_vars, check_vars>>

\* lines 158-166 and 177-181: the call on top of the stack finds no violating
\* FD and returns one table
BcnfTerminal ==
    /\ pc = "bcnf_decompose" /\ stack # <<>>
    /\ LET call == Head(stack)
           relevant_fds == RelevantFds(call.cols, call.fds)
       IN /\ FirstViolation(call.cols, relevant_fds, 1) = 0
          /\ \E cols \in ColsOf(call, columns) :
             \E pk \in find_key(cols, call.fds, candidate_keys) :
                 tables' = Append(tables, [name |-> <<>>, columns |-> cols,
                                           primary_key |-> pk])
    /\ stack' = Tail(stack)
    /\ UNCHANGED <<df, columns, fds, candidate_keys, attrs, closure, changed, passes,
                   cover, nf, pc, done, foreign_keys, questions, target_nf, replay_vars, check_vars>>

\* lines 185-192: every call has returned; name the tables and return
BcnfReturn ==
    /\ pc = "bcnf_decompose" /\ stack = <<>>
    /\ tables' = NameTables(tables)
    /\ pc' = "return"
    /\ done' = done \cup {"decompose_bcnf"}
    /\ UNCHANGED <<df, columns, fds, candidate_keys, attrs, closure, changed, passes,
                   cover, nf, stack, foreign_keys, questions, target_nf, replay_vars, check_vars>>

NextBcnf == BcnfSplit \/ BcnfRecursionError \/ BcnfTerminal \/ BcnfReturn
               \/ ComputeForeignKeys

SpecBcnf == InitBcnf /\ [][NextBcnf]_vars

\* ============================================================ SpecEmpDept, SpecReview
\* The whole pipeline on one CSV file: analyze() as in SpecAnalyze, its
\* result saved, then normalize() on the saved result: the FD filter, the
\* decomposition --target asks for, and the foreign keys.

\* analyze.py lines 316-334: the questions and the saved result
AnalyzeResult ==
    /\ pc = "return" /\ "assess_normal_form" \in done /\ "analyze" \notin done
    /\ questions' = generate_questions(fds)
    /\ config' = [columns |-> columns, functional_dependencies |-> fds,
                  candidate_keys |-> candidate_keys, questions |-> questions']
    /\ pc' = "normalize"
    /\ done' = done \cup {"analyze"}
    /\ UNCHANGED <<df, columns, fds, candidate_keys, attrs, closure, changed, passes,
                   cover, tables, nf, stack, foreign_keys, target_nf, strict, fs,
                   results, next_table, out, check_vars>>

\* normalize.py lines 355-375
NormalizeLoad ==
    /\ pc = "normalize"
    /\ columns' = config.columns
    /\ fds' = ConfirmedFds(config.functional_dependencies)
    /\ candidate_keys' = config.candidate_keys
    /\ pc' = CASE Is3NFTarget(target_nf) -> "decompose_3nf"
               [] IsBCNFTarget(target_nf) -> "bcnf_decompose"
               [] OTHER -> "exit"
    /\ stack' = IF IsBCNFTarget(target_nf) THEN <<Call(Range(columns'), fds', 0)>> ELSE stack
    /\ UNCHANGED <<df, attrs, closure, changed, passes, cover, tables, nf, done,
                   foreign_keys, questions, target_nf, replay_vars, check_vars>>

\* the pipeline with --target 3NF
NextPipeline3NF ==
    \/ DetectFds \/ FindCandidateKeys \/ AssessNormalForm \/ AnalyzeResult
    \/ NormalizeLoad \/ Decompose3NF \/ ComputeForeignKeys

\* the pipeline with any --target
NextPipeline ==
    \/ NextPipeline3NF
    \/ BcnfSplit \/ BcnfTerminal \/ BcnfReturn

\* --- SpecEmpDept: the employee/department tables.  The columns emp_id,
\* emp_name, dept_id, dept_name are the attributes b_id, b, a_id, a.
\* the attribute AttrName names Stems[k], and the one it names Stems[k] + "_id"
StemAttr(k) == 2 * k - 1

IdAttr(k) == 2 * k

EmpId == IdAttr(2)

EmpName == StemAttr(2)

DeptId == IdAttr(1)

DeptName == StemAttr(1)

\* the k-th plain cell value
Plain(k) == 2 * k - 1

\* every table of at most MaxEmpRows employees with distinct ids, each with
\* one of NumNames names and one of NumDepts departments, each department
\* with one of NumNames names: emp_id -> emp_name, dept_id and
\* dept_id -> dept_name hold in all of them.  The first employee has the
\* first name and the first department, which has the first name.
EmpDeptTables ==
    UNION {{[r \in 1..n |-> <<Plain(dn[d[r]]), Plain(d[r]), Plain(nm[r]), Plain(r)>>] :
               nm \in {f \in [1..n -> 1..NumNames] : n > 0 => f[1] = 1},
               d \in {f \in [1..n -> 1..NumDepts] : n > 0 => f[1] = 1},
               dn \in {f \in [1..NumDepts -> 1..NumNames] : f[1] = 1}} :
           n \in 0..MaxEmpRows}

InitEmpDept ==
    /\ df \in EmpDeptTables
    /\ columns = <<EmpId, EmpName, DeptId, DeptName>>
    /\ fds = <<>> /\ candidate_keys = <<>>
    /\ tables = <<>> /\ nf = <<>> /\ cover = <<>>
    /\ NoClosureRun
    /\ stack = <<>> /\ foreign_keys = <<>> /\ questions = <<>> /\ target_nf = "3NF"
    /\ NoReplay
    /\ pc = "detect_fds"
    /\ done = {}
    /\ grouped = NoGroups

SpecEmpDept == InitEmpDept /\ [][NextPipeline3NF]_vars


\* --- SpecReview: tables with a nearly unique first column.  Row r holds the
\* value NearUnique(r) in column 1, so the first two rows share a value and
\* every later row has its own, and any of NumNames plain values in the
\* other columns (the first row holds the first value, which loses nothing:
\* detect_fds compares values only for equality): from five groups on, an FD from column 1 that fails in the
\* shared group has a confidence between the threshold and 1.0.
NearUnique(r) == Plain(IF r = 1 THEN 1 ELSE r - 1)

ReviewTables ==
    UNION {{[r \in 1..n |-> [c \in Attrs |-> IF c = 1 THEN NearUnique(r) ELSE Plain(v[r][c])]] :
               v \in {f \in [1..n -> [Attrs -> 1..NumNames]] :
                         n > 0 => \A c \in Attrs : f[1][c] = 1}} :
           n \in 0..MaxReviewRows}

InitReview ==
    /\ df \in ReviewTables
    /\ columns = SortedSeq(Attrs)
    /\ target_nf \in Targets
    /\ fds = <<>> /\ candidate_keys = <<>>
    /\ tables = <<>> /\ nf = <<>> /\ cover = <<>>
    /\ NoClosureRun
    /\ stack = <<>> /\ foreign_keys = <<>> /\ questions = <<>>
    /\ NoReplay
    /\ pc = "detect_fds"
    /\ done = {}
    /\ grouped = NoGroups

SpecReview == InitReview /\ [][NextPipeline]_vars


\* ============================================================ SpecTransform
\* transform.py replaying a config of at most MaxReplayTables tables over
\* the analysed columns Attrs, as generate_transform_config writes it
\* (every primary key inside its table's columns, names and foreign keys as
\* normalize.py computes them), on an input of at most MaxReplayRows rows whose columns are any
\* of Attrs and ExtraCol, with and without --strict.
ReplayTables ==
    {[name |-> <<>>, columns |-> SortedSeq(C), primary_key |-> SortedSeq(K)] :
        C \in (SUBSET Attrs) \ {{}}, K \in (SUBSET Attrs) \ {{}}}

ReplayConfigs ==
    {generate_transform_config(NameTables(tl), compute_foreign_keys(NameTables(tl)),
                               SortedSeq(Attrs)) :
        tl \in SeqsUpTo({t \in ReplayTables :
                            Range(t.primary_key) \subseteq Range(t.columns)},
                        MaxReplayTables)}

\* the first row holds the first value in every column, the others any of
\* NumNames plain values
ReplayInputs(cols) ==
    {<<>>} \cup
    {<<[c \in Range(cols) |-> Plain(1)]>> \o rest :
        rest \in SeqsUpTo([Range(cols) -> {Plain(v) : v \in 1..NumNames}], MaxReplayRows - 1)}

InitTransform ==
    /\ columns \in {SortedSeq(S) : S \in (SUBSET (Attrs \cup {ExtraCol})) \ {{}}}
    /\ df \in ReplayInputs(columns)
    /\ config \in ReplayConfigs
    /\ strict \in BOOLEAN
    /\ fs = NoFiles /\ results = <<>> /\ next_table = 0 /\ out = NoOutput
    /\ fds = <<>> /\ candidate_keys = <<>>
    /\ tables = <<>> /\ nf = <<>> /\ cover = <<>>
    /\ NoClosureRun /\ NoSynth
    /\ pc = "transform"
    /\ done = {}
    /\ grouped = NoGroups

\* transform, lines 58-68: read the input and the config, validate, and in
\* strict mode exit on a "Missing" message
ValidateInput ==
    /\ pc = "transform"
    /\ pc' = IF StrictAbort(strict, validate_input(columns, config)) THEN "exit" ELSE "mkdir"
    /\ UNCHANGED <<df, columns, fds, candidate_keys, attrs, closure, changed, passes,
                   cover, tables, nf, done, synth_vars, replay_vars, check_vars>>

\* transform, lines 71-76: create the output directory and tables/
MakeDirs ==
    /\ pc = "mkdir"
    /\ fs' = [fs EXCEPT !.dir = TRUE]
    /\ results' = <<>>
    /\ next_table' = 1
    /\ pc' = "tables"
    /\ UNCHANGED <<df, columns, fds, candidate_keys, attrs, closure, changed, passes,
                   cover, tables, nf, done, synth_vars, config, strict, out, check_vars>>

\* transform, lines 79-106: one pass of the loop over config["tables"]
TransformTable ==
    /\ pc = "tables"
    /\ next_table <= Len(config.tables)
    /\ LET table_config == config.tables[next_table]
           table_df == TableFile(df, table_config)
       IN IF Len(available_cols(table_config.columns, columns)) # Len(table_config.columns)
          THEN /\ next_table' = next_table + 1
               /\ UNCHANGED <<fs, results, pc>>
          ELSE IF AmbiguousSortLabel(table_config)
          THEN /\ pc' = "raised"
               /\ UNCHANGED <<fs, results, next_table>>
          ELSE /\ fs' = [fs EXCEPT !.files = (table_config.name :> table_df) @@ @]
               /\ results' = Append(results, [name |-> table_config.name,
                                              rows |-> Cardinality(table_df.rows)])
               /\ next_table' = next_table + 1
               /\ UNCHANGED pc
    /\ UNCHANGED <<df, columns, fds, candidate_keys, attrs, closure, changed, passes,
                   cover, tables, nf, done, synth_vars, config, strict, out, check_vars>>

\* transform, lines 109-121, and validate_foreign_keys: the orphan messages
\* are only printed
ValidateForeignKeys ==
    /\ pc = "tables"
    /\ next_table > Len(config.tables)
    /\ IF \E k \in 1..Len(config.foreign_keys) : FkLookupFails(fs.files, config.foreign_keys[k])
       THEN pc' = "raised" /\ UNCHANGED done
       ELSE pc' = "return" /\ done' = done \cup {"transform"}
    /\ UNCHANGED <<df, columns, fds, candidate_keys, attrs, closure, changed, passes,
                   cover, tables, nf, synth_vars, replay_vars, check_vars>>

NextTransform == ValidateInput \/ MakeDirs \/ TransformTable \/ ValidateForeignKeys

SpecTransform == InitTransform /\ [][NextTransform]_vars


\* ============================================================ SpecReplay
\* analyze.py, then normalize.py with every spelling of --target, then
\* transform.py replaying the config normalize wrote on the same CSV, with
\* and without --strict, over tables of at most MaxRows rows.
ReplayDfs ==
    UNION {{[r \in 1..n |-> [c \in Attrs |-> Plain(v[r][c])]] :
               v \in {f \in [1..n -> [Attrs -> 1..NumNames]] :
                         n > 0 => \A c \in Attrs : f[1][c] = 1}} :
           n \in 0..MaxRows}

InitReplay ==
    /\ df \in ReplayDfs
    /\ columns = SortedSeq(Attrs)
    /\ target_nf \in TargetArgs
    /\ strict \in BOOLEAN
    /\ fds = <<>> /\ candidate_keys = <<>>
    /\ tables = <<>> /\ nf = <<>> /\ cover = <<>>
    /\ NoClosureRun
    /\ stack = <<>> /\ foreign_keys = <<>> /\ questions = <<>>
    /\ config = <<>> /\ fs = NoFiles /\ results = <<>> /\ next_table = 0
    /\ out = NoOutput
    /\ pc = "detect_fds"
    /\ done = {}
    /\ grouped = NoGroups

\* normalize, lines 383-421: the output directory, one CSV per table name,
\* schema.sql, erd.md, transform_config.json and README.md; the replay then
\* starts from the config written
NormalizeWrite ==
    /\ pc = "return"
    /\ "compute_foreign_keys" \in done
    /\ "normalize" \notin done
    /\ out' = [dir |-> TRUE,
               files |-> [n \in {tables[t].name : t \in 1..Len(tables)} |->
                             LET last == CHOOSE t \in 1..Len(tables) :
                                             /\ tables[t].name = n
                                             /\ \A u \in (t + 1)..Len(tables) : tables[u].name # n
                             IN TableFile(df, tables[last])],
               written |-> {"schema.sql", "erd.md", "transform_config.json", "README.md"}]
    /\ config' = generate_transform_config(tables, foreign_keys, columns)
    /\ pc' = "transform"
    /\ done' = done \cup {"normalize"}
    /\ UNCHANGED <<df, columns, fds, candidate_keys, attrs, closure, changed, passes,
                   cover, tables, nf, synth_vars, strict, fs, results, next_table,
                   check_vars>>

NextReplay ==
    \/ NextPipeline
    \/ NormalizeWrite
    \/ ValidateInput \/ MakeDirs \/ TransformTable \/ ValidateForeignKeys

SpecReplay == InitReplay /\ [][NextReplay]_vars


\* ============================================================ SpecConfidence
\* check_fd and detect_fds from the groupby on: one dependency between two
\* columns whose groupby gave at most MaxGroups determinant groups, at most
\* MaxViolations of them with more than one dependent value.
GroupCounts ==
    {g \in [violations : 0..MaxViolations, total_groups : 1..MaxGroups] :
        g.violations <= g.total_groups}

InitConfidence ==
    /\ grouped \in GroupCounts
    /\ Idle
    /\ fds = <<>>
    /\ NoClosureRun
    /\ pc = "check_fd"
    /\ done = {}

\* check_fd lines 91-98 and detect_fds lines 112-119 for one pair of columns
CheckFd ==
    /\ pc = "check_fd"
    /\ LET result == GroupResult(grouped.violations, grouped.total_groups)
       IN fds' = IF result.confidence >= Threshold
                 THEN <<FoundFD({1}, 2, result)>>
                 ELSE <<>>
    /\ pc' = "return"
    /\ done' = done \cup {"detect_fds"}
    /\ UNCHANGED <<df, columns, candidate_keys, attrs, closure, changed, passes,
                   cover, tables, nf, synth_vars, replay_vars, check_vars>>

NextConfidence == CheckFd

SpecConfidence == InitConfidence /\ [][NextConfidence]_vars


\* ------------------------------------------------------------ properties
Max(a, b) == IF a >= b THEN a ELSE b

\* all names occurring in S and F
AttributesOf(S, fdl) ==
    S \cup UNION {fdl[i].determinant \cup {fdl[i].dependent} : i \in 1..Len(fdl)}

\* no FD of fdl has its determinant inside cl and its dependent outside it
FixedPoint(cl, fdl) ==
    \A i \in 1..Len(fdl) :
        fdl[i].determinant \subseteq cl => fdl[i].dependent \in cl

\* C1 (as claimed): the minimal cover has the same closure as the FD list it
\* was computed from, for every attribute subset X.
C1_CoverEquivalent ==
    "compute_minimal_cover" \in done =>
        \A X \in SUBSET Attrs : compute_closure(X, cover) = compute_closure(X, fds)

\* C2 (as claimed): no FD of the returned cover is derivable from the other
\* FDs of the returned cover.
C2_CoverNonRedundant ==
    "compute_minimal_cover" \in done =>
        \A i \in 1..Len(cover) : ~is_derivable(cover[i], RemoveAt(cover, i))

\* C3: compute_closure is extensive (S is inside its closure) and idempotent
\* (closing the closure again changes nothing).
C3_ClosureIdempotentExtensive ==
    LET c == compute_closure(attrs, fds)
    IN /\ attrs \subseteq c
       /\ compute_closure(c, fds) = c

\* C3 witness: a run that needed two productive passes has returned a closure
\* strictly larger than the argument.
C3_Witness ==
    /\ pc = "return"
    /\ passes >= 3
    /\ closure = compute_closure(attrs, fds)
    /\ closure # attrs

\* C4 (as claimed): never more than |attributes| passes, and a fixed point on
\* return.
C4_PassesAtMostAttributes ==
    /\ passes <= Cardinality(AttributesOf(attrs, fds))
    /\ (pc = "return" => FixedPoint(closure, fds))

\* C4 (amended): never more than max(1, |attributes|) passes, since the loop
\* body always runs once, and a fixed point on return.
C4_PassBoundAndFixedPoint ==
    /\ passes <= Max(1, Cardinality(AttributesOf(attrs, fds)))
    /\ (pc = "return" => FixedPoint(closure, fds))

\* C4 witness: a run that returned after exactly |attributes| passes, at
\* least two of which added an attribute.
C4_Witness ==
    /\ pc = "return"
    /\ passes >= 3
    /\ passes = Cardinality(AttributesOf(attrs, fds))
    /\ FixedPoint(closure, fds)

\* the FDs of fdl whose determinant and dependent lie inside T
Restrict(fdl, T) ==
    SelectSeq(fdl, LAMBDA fd : fd.determinant \subseteq T /\ fd.dependent \in T)

\* the keys of the column set T under fdl: minimal subsets closing to T
KeysOf(T, fdl) ==
    {K \in SUBSET T :
        /\ T \subseteq compute_closure(K, fdl)
        /\ \A K2 \in SUBSET K : K2 # K => ~(T \subseteq compute_closure(K2, fdl))}

\* T is in 3NF under fdl: every FD inside T has a superkey determinant or a
\* prime dependent
Is3NF(T, fdl) ==
    LET R == Restrict(fdl, T)
    IN \A i \in 1..Len(R) :
           \/ T \subseteq compute_closure(R[i].determinant, R)
           \/ \E K \in KeysOf(T, R) : R[i].dependent \in K

\* C8 (as claimed): the returned tables' columns together are exactly the
\* original columns, whatever the FD list and candidate-key list.
C8_AllColumnsCovered ==
    "decompose_3nf" \in done =>
        UNION {TableCols(tables[t]) : t \in 1..Len(tables)} = Range(columns)

\* C9 (as claimed): with a non-empty candidate-key list some returned table
\* contains every attribute of the first candidate key.
C9_KeyInsideOneTable ==
    ("decompose_3nf" \in done /\ Len(candidate_keys) > 0) =>
        \E t \in 1..Len(tables) :
            Range(candidate_keys[1].columns) \subseteq TableCols(tables[t])

\* C10 (as claimed): every returned table is in 3NF against the minimal cover
\* restricted to its columns.
C10_EveryTable3NF ==
    "decompose_3nf" \in done =>
        \A t \in 1..Len(tables) : Is3NF(TableCols(tables[t]), cover)

\* C5 (as claimed): whenever the closure of must_be_in_key under the
\* confidence-1.0 FDs is the full column set, find_candidate_keys returns a
\* key whose columns are must_be_in_key.
C5_MustKeyRecordedWhenClosed ==
    ("find_candidate_keys" \in done
        /\ compute_closure(MustBeInKey(columns, fds), Confirmed(fds)) = Range(columns)) =>
        \E k \in 1..Len(candidate_keys) :
            Range(candidate_keys[k].columns) = MustBeInKey(columns, fds)

\* C6 (as claimed): every key find_candidate_keys returns for a table and the
\* FDs detected on it closes to the full column set under the confidence-1.0
\* FDs, and no proper subset of it does.
C6_ReturnedKeysAreCandidateKeys ==
    "find_candidate_keys" \in done =>
        \A k \in 1..Len(candidate_keys) :
            IsCandidateKey(Range(candidate_keys[k].columns), columns, Confirmed(fds))

\* the violations of each level, stated on the inputs of assess_normal_form
Violated(lvl) ==
    LET conf == Confirmed(fds)
        cks == candidate_keys
    IN CASE lvl = "1NF" ->
              \E c \in Range(columns) :
                  10 * Cardinality({r \in 1..Len(df) : HasDelimiter(df[r][c])})
                      > 3 * Cardinality({r \in 1..Len(df) : ~IsNull(df[r][c])})
         [] lvl = "2NF" ->
              \E k \in 1..Len(cks), i \in 1..Len(conf) :
                  /\ Cardinality(Range(cks[k].columns)) > 1
                  /\ conf[i].determinant \subseteq Range(cks[k].columns)
                  /\ conf[i].determinant # Range(cks[k].columns)
                  /\ conf[i].dependent \notin Range(cks[k].columns)
         [] lvl = "3NF" ->
              \E i \in 1..Len(conf) :
                  \A k \in 1..Len(cks) :
                      (conf[i].determinant \cup {conf[i].dependent}) \cap Range(cks[k].columns) = {}
         [] lvl = "BCNF" ->
              \E i \in 1..Len(conf) :
                  \A k \in 1..Len(cks) : ~(Range(cks[k].columns) \subseteq conf[i].determinant)

\* C7: assess_normal_form reports the level just below the first violated
\* level in the order 1NF, 2NF, 3NF, BCNF (BCNF when none is violated), and
\* its violations map holds exactly the violated levels.
C7_FirstViolatedLevelDecides ==
    "assess_normal_form" \in done =>
        /\ nf.current_normal_form =
              (IF Violated("1NF") THEN "UNF"
               ELSE IF Violated("2NF") THEN "1NF"
               ELSE IF Violated("3NF") THEN "2NF"
               ELSE IF Violated("BCNF") THEN "3NF"
               ELSE "BCNF")
        /\ DOMAIN nf.violations = {lvl \in NFLevels : Violated(lvl)}

\* C7 witness: a table with a partial dependency on a composite key and no
\* 1NF violation has been assessed as 1NF, with the 2NF and BCNF violations
\* both listed.
C7_Witness ==
    /\ "assess_normal_form" \in done
    /\ nf.current_normal_form = "1NF"
    /\ DOMAIN nf.violations = {"2NF", "BCNF"}


\* the dependents of determinant X in the FD list fdl
DependentsOf(X, fdl) == {fdl[j].dependent : j \in {k \in 1..Len(fdl) : fdl[k].determinant = X}}

\* C11 (as claimed): for every determinant X of the minimal cover exactly one
\* returned table has primary key X, and its columns are exactly X together
\* with the dependents of X in the cover.
C11_OneTablePerDeterminant ==
    "decompose_3nf" \in done =>
        \A i \in 1..Len(cover) :
            LET X == cover[i].determinant
                T == {t \in 1..Len(tables) : Range(tables[t].primary_key) = X}
            IN /\ Cardinality(T) = 1
               /\ \A t \in T : TableCols(tables[t]) = X \cup DependentsOf(X, cover)


\* C12: every table decompose_bcnf returns has no relevant FD (determinant and
\* dependent inside the table's columns) whose determinant's closure under
\* the table's relevant FDs misses a column of the table.
C12_NoViolatingFdInTables ==
    "decompose_bcnf" \in done =>
        \A t \in 1..Len(tables) :
            LET T == TableCols(tables[t])
                R == RelevantFds(T, fds)
            IN \A i \in 1..Len(R) : T \subseteq compute_closure(R[i].determinant, R)

\* C12 witness: a decomposition that split twice has returned three tables,
\* two of which hold a relevant FD.
C12_Witness ==
    /\ "decompose_bcnf" \in done
    /\ Len(tables) = 3
    /\ Cardinality({t \in 1..Len(tables) : Len(RelevantFds(TableCols(tables[t]), fds)) > 0}) = 2



\* a split replaces the call on top of the stack by two calls, both on
\* strictly fewer columns than the call they replace
SplitShrinks ==
    Len(stack') > Len(stack) =>
        \A k \in 1..2 :
            /\ stack'[k].cols \subseteq Head(stack).cols
            /\ stack'[k].cols # Head(stack).cols

JoinRows == [BcnfAttrs -> 1..NumJoinVals]

BaseRow == [a \in BcnfAttrs |-> 1]

Instances == {{BaseRow} \cup Range(rows) : rows \in SeqsUpTo(JoinRows, MaxJoinRows - 1)}

\* the FD holds in the instance: rows agreeing on the determinant agree on
\* the dependent
FdHolds(inst, fd) ==
    \A r1, r2 \in inst :
        (\A a \in fd.determinant : r1[a] = r2[a]) => r1[fd.dependent] = r2[fd.dependent]

\* the rows that every table's projection has a part of
NaturalJoin(inst, tbls) ==
    LET cols == [t \in 1..Len(tbls) |-> TableCols(tbls[t])]
        part == [t \in 1..Len(tbls) |-> Projection(inst, cols[t])]
    IN {r \in JoinRows : \A t \in 1..Len(tbls) : Project(r, cols[t]) \in part[t]}

\* C14: decompose_bcnf is lossless: on every instance in which all the given
\* FDs hold, the natural join of the deduplicated projections onto the
\* returned tables' column sets is the set of distinct original rows.
C14_LosslessJoin ==
    "decompose_bcnf" \in done =>
        \A inst \in Instances :
            (\A i \in 1..Len(fds) : FdHolds(inst, fds[i])) => NaturalJoin(inst, tables) = inst

\* C14 witness: a decomposition into three tables has returned for FDs that
\* hold in some instance of two rows whose every projection keeps both rows.
C14_Witness ==
    /\ "decompose_bcnf" \in done
    /\ Len(tables) = 3
    /\ \E inst \in Instances :
           /\ Cardinality(inst) = 2
           /\ \A i \in 1..Len(fds) : FdHolds(inst, fds[i])
           /\ \A t \in 1..Len(tables) :
                  Cardinality(Projection(inst, TableCols(tables[t]))) = 2


\* the edges the rule asks for: child and parent are different tables, the
\* column is a column of the child outside its primary key, and the parent's
\* primary key is that single column
ExpectedEdges ==
    {x \in (1..Len(tables)) \X (1..Len(tables)) \X Range(columns) :
        /\ x[1] # x[2]
        /\ x[3] \in TableCols(tables[x[1]]) \ Range(tables[x[1]].primary_key)
        /\ Range(tables[x[2]].primary_key) = {x[3]}}

EdgeOf(x) == [child_table |-> tables[x[1]].name, column |-> x[3],
              parent_table |-> tables[x[2]].name, parent_column |-> x[3]]

\* C15 (as claimed): compute_foreign_keys returns each edge the rule asks for
\* once, and no other edge.
C15_ForeignKeysExactlyTheRule ==
    "compute_foreign_keys" \in done =>
        /\ \A k \in 1..Len(foreign_keys) : \E x \in ExpectedEdges : foreign_keys[k] = EdgeOf(x)
        /\ \A x \in ExpectedEdges :
               Cardinality({k \in 1..Len(foreign_keys) : foreign_keys[k] = EdgeOf(x)})
                   = Cardinality({y \in ExpectedEdges : EdgeOf(y) = EdgeOf(x)})


\* the FDs of the employee/department scenario
ScenarioFds == <<FD({EmpId}, EmpName), FD({EmpId}, DeptId), FD({DeptId}, DeptName)>>

\* discovery has reported fd with confidence 1.0
ReportedConfirmed(fd) ==
    \E i \in 1..Len(fds) :
        /\ fds[i].determinant = fd.determinant
        /\ fds[i].dependent = fd.dependent
        /\ fds[i].confidence = One

\* the tables are the employee table and the department table
EmpDeptSchema ==
    /\ Len(tables) = 2
    /\ \E e, d \in 1..Len(tables) :
           /\ TableCols(tables[e]) = {EmpId, EmpName, DeptId}
           /\ Range(tables[e].primary_key) = {EmpId}
           /\ TableCols(tables[d]) = {DeptId, DeptName}
           /\ Range(tables[d].primary_key) = {DeptId}

\* the employee table's dept_id refers to the department table's dept_id
EmpDeptForeignKey ==
    \E k \in 1..Len(foreign_keys), e, d \in 1..Len(tables) :
        /\ TableCols(tables[e]) = {EmpId, EmpName, DeptId}
        /\ TableCols(tables[d]) = {DeptId, DeptName}
        /\ foreign_keys[k] = [child_table |-> tables[e].name, column |-> DeptId,
                              parent_table |-> tables[d].name, parent_column |-> DeptId]

\* what the scenario promises, stage by stage
EmpDeptOutcome ==
    /\ pc # "raised"
    /\ "detect_fds" \in done => \A i \in 1..Len(ScenarioFds) : ReportedConfirmed(ScenarioFds[i])
    /\ "find_candidate_keys" \in done =>
           \E k \in 1..Len(candidate_keys) : Range(candidate_keys[k].columns) = {EmpId}
    /\ "decompose_3nf" \in done => EmpDeptSchema
    /\ "compute_foreign_keys" \in done => EmpDeptForeignKey

OnlyScenarioFdsHold ==
    /\ df # <<>>
    /\ \A X \in {S \in SUBSET Range(columns) : Cardinality(S) \in 1..2} :
       \A y \in Range(columns) \ X :
           FdHolds(Range(df), FD(X, y)) => y \in compute_closure(X, ScenarioFds)

Loaded == "analyze" \in done /\ pc # "normalize"

\* C17: every FD detect_fds reports with confidence below 1.0 has status
\* needs_review and an fd_confirmation question, and is not among the FDs
\* normalize decomposes over, all of which have status confirmed or
\* confidence 1.0.
C17_ReviewFdsAskedAndLeftOut ==
    "analyze" \in done =>
        /\ \A i \in 1..Len(config.functional_dependencies) :
               LET fd == config.functional_dependencies[i]
               IN fd.confidence < One =>
                      /\ fd.status = "needs_review"
                      /\ \E k \in 1..Len(questions) :
                             /\ questions[k].type = "fd_confirmation"
                             /\ questions[k].fd = FD(fd.determinant, fd.dependent)
                      /\ Loaded => \A j \in 1..Len(fds) : fds[j] # fd
        /\ Loaded => \A j \in 1..Len(fds) :
                         fds[j].status = "confirmed" \/ fds[j].confidence = One

\* C17 witness: normalize has built tables from the confirmed FDs of an
\* analysis that also reported an FD with a confidence below 1.0.
C17_Witness ==
    /\ "compute_foreign_keys" \in done
    /\ Len(tables) >= 2
    /\ Len(fds) >= 2
    /\ \E i \in 1..Len(config.functional_dependencies) :
           /\ config.functional_dependencies[i].confidence < One
           /\ config.functional_dependencies[i].confidence >= Threshold
    /\ Len(questions) >= 1


\* the columns of the config's original_columns that the input lacks
MissingCols == Range(config.original_columns) \ Range(columns)

\* C18: in strict mode on an input that lacks a column of original_columns,
\* transform never gets past validation: it is still validating or has
\* exited, and neither the output directory nor any table file exists.
C18_StrictAbortsBeforeOutput ==
    (strict /\ MissingCols # {}) => (pc \in {"transform", "exit"} /\ fs = NoFiles)

\* C18 witness: a strict replay of a config with tables has exited on a
\* missing column
C18_Witness ==
    /\ strict /\ MissingCols # {}
    /\ pc = "exit"
    /\ Len(config.tables) > 0
    /\ fs = NoFiles

\* table k of the config has all its columns in the input
Complete(k) == Range(config.tables[k].columns) \subseteq Range(columns)

\* the tables the loop has passed that have all their columns
CompletePassed == {k \in 1..(next_table - 1) : Complete(k)}

\* C19: without strict mode transform neither exits nor raises, the files
\* written are exactly those of the tables passed so far that have all
\* their columns, and it returns only after the whole loop.
C19_NonStrictWritesCompleteTables ==
    ~strict =>
        /\ pc \notin {"exit", "raised"}
        /\ pc \in {"tables", "return"} =>
               /\ DOMAIN fs.files = {config.tables[k].name : k \in CompletePassed}
               /\ Len(results) = Cardinality(CompletePassed)
        /\ pc = "return" => next_table = Len(config.tables) + 1

\* C20: when no expected column is missing, transform does not exit,
\* whatever extra columns the input has
C20_ExtraColumnsNeverAbort ==
    MissingCols = {} => pc # "exit"


\* the replay has left the loop over the tables, by its end or by an error
ReplayEnded == "normalize" \in done /\ pc \in {"return", "raised", "exit"}

\* C21: once the replay of the config normalize wrote has ended, every
\* table of the decomposition has a file in the replay's output with the
\* columns and the set of rows of the file normalize wrote for it.
C21_ReplayReproducesTables ==
    ReplayEnded =>
        \A t \in 1..Len(tables) :
            /\ tables[t].name \in DOMAIN fs.files
            /\ fs.files[tables[t].name] = out.files[tables[t].name]


\* the spellings of --target the claim counts as supported
SupportedSpellings == {"3NF", "3nf", "3", "BCNF", "bcnf", "Bcnf", "BC", "bc"}

\* C22: with any other --target normalize decomposes nothing and writes
\* nothing (no output directory, table file, schema, diagram, config or
\* README), and once it has read its inputs it has exited.
C22_UnsupportedTargetWritesNothing ==
    target_nf \notin SupportedSpellings =>
        /\ out = NoOutput
        /\ tables = <<>> /\ foreign_keys = <<>>
        /\ "normalize" \notin done
        /\ Loaded => pc = "exit"

\* C22 witness: normalize has exited on an unsupported target after an
\* analysis that found FDs, with nothing written
C22_Witness ==
    /\ target_nf \notin SupportedSpellings
    /\ Loaded /\ pc = "exit"
    /\ Len(fds) > 0
    /\ out = NoOutput


\* C23: a reported FD has confidence 1.0 and status confirmed exactly when
\* none of its (at least one) determinant groups is violating, and with one
\* or more violating groups it has a confidence below 1.0 and status
\* needs_review, whatever the number of groups.
C23_ConfirmedIffNoViolation ==
    \A i \in 1..Len(fds) :
        /\ (fds[i].confidence = One /\ fds[i].status = "confirmed")
               <=> (fds[i].violations = 0 /\ fds[i].total_groups >= 1)
        /\ fds[i].violations >= 1 =>
               (fds[i].confidence < One /\ fds[i].status = "needs_review")


\* the table a terminal call of bcnf_decompose appends, checked against the
\* relevant FDs find_key computes from the FD list of that call
TerminalKeyCloses ==
    (pc = "bcnf_decompose" /\ Len(tables') = Len(tables) + 1) =>
        LET call == Head(stack)
            t == tables'[Len(tables')]
            col_set == Range(t.columns)
            pk == Range(t.primary_key)
            relevant_fds == RelevantFds(col_set, call.fds)
        IN /\ pk \subseteq col_set
           /\ col_set \subseteq compute_closure(pk, relevant_fds)
           /\ pk = col_set =>
                  \A X \in (SUBSET col_set) \ {col_set} :
                      ~(col_set \subseteq compute_closure(X, relevant_fds))

\* C24: every terminal table of decompose_bcnf gets a primary key inside
\* its columns whose closure under the table's relevant FDs is all its
\* columns, and the key is all columns only when no smaller set closes.
C24_TerminalKeyIsClosingKey == [][TerminalKeyCloses]_vars


\* the same step, with the candidate-key shortcut of find_key told apart:
\* the key is the first given candidate key inside the table's columns when
\* there is one, and only otherwise a closing set of the relevant FDs
TerminalKeyIsCandidateOrCloses ==
    (pc = "bcnf_decompose" /\ Len(tables') = Len(tables) + 1) =>
        LET call == Head(stack)
            t == tables'[Len(tables')]
            col_set == Range(t.columns)
            pk == Range(t.primary_key)
            relevant_fds == RelevantFds(col_set, call.fds)
            k == FirstKeyInside(col_set, candidate_keys, 1)
        IN /\ pk \subseteq col_set
           /\ k > 0 => t.primary_key = candidate_keys[k].columns
           /\ k = 0 =>
                  /\ col_set \subseteq compute_closure(pk, relevant_fds)
                  /\ pk = col_set =>
                         \A X \in (SUBSET col_set) \ {col_set} :
                             ~(col_set \subseteq compute_closure(X, relevant_fds))

\* C24 (amended): the primary key of a terminal table is inside its columns
\* and is the first candidate key inside them or, when there is none, a set
\* that closes to all columns under the relevant FDs, all columns only when
\* no smaller set closes.
C24_TerminalKeyCandidateOrClosing == [][TerminalKeyIsCandidateOrCloses]_vars

\* C24 witness: a decomposition has returned with a table keyed by the
\* determinant of a relevant FD and a table of two or more columns keyed by
\* all its columns, neither holding a candidate key
C24_Witness ==
    /\ pc = "return" /\ "decompose_bcnf" \in done
    /\ \E t \in 1..Len(tables) :
           /\ FirstKeyInside(Range(tables[t].columns), candidate_keys, 1) = 0
           /\ Range(tables[t].primary_key) # Range(tables[t].columns)
    /\ \E t \in 1..Len(tables) :
           /\ FirstKeyInside(Range(tables[t].columns), candidate_keys, 1) = 0
           /\ Range(tables[t].primary_key) = Range(tables[t].columns)
           /\ Len(tables[t].columns) >= 2


\* the table has no row, or only null cells
EmptyOrAllNull == \A r \in 1..Len(df) : \A c \in 1..Len(columns) : IsNull(df[r][columns[c]])

\* C25: on a table with no row or with only null cells detect_fds does not
\* raise and returns no FD.
C25_EmptyAndNullTablesGiveNoFd ==
    EmptyOrAllNull =>
        /\ pc # "raised"
        /\ pc # "detect_fds" => fds = <<>>


\* C26: every FD of the minimal cover is derivable from the input FDs: for
\* every attribute subset X the closure of X under the cover lies inside the
\* closure of X under the input list.
C26_CoverSound ==
    "compute_minimal_cover" \in done =>
        \A X \in SUBSET Attrs : compute_closure(X, cover) \subseteq compute_closure(X, fds)

\* a returned cover that dropped an FD and shortened a determinant
C26_Witness ==
    /\ "compute_minimal_cover" \in done
    /\ Len(cover) < Len(fds)
    /\ \E i \in 1..Len(cover) : \A j \in 1..Len(fds) :
           cover[i].dependent = fds[j].dependent => cover[i].determinant # fds[j].determinant


\* C27: the tables of one decomposition carry pairwise distinct names.
C27_TableNamesDistinct ==
    pc = "return" =>
        \A i, j \in 1..Len(tables) : tables[i].name = tables[j].name => i = j


\* C28: no table returned by decompose_3nf lists a column twice, the key
\* table with the uncovered columns appended included.
C28_NoColumnTwice ==
    "decompose_3nf" \in done =>
        \A t \in 1..Len(tables) :
            \A i, j \in 1..Len(tables[t].columns) :
                tables[t].columns[i] = tables[t].columns[j] => i = j


\* C29: every table decompose_bcnf returns is in BCNF with respect to all
\* dependencies the FD list implies: for every subset X of the table's
\* columns the closure of X under the full FD list, cut down to the table's
\* columns, is X itself or the whole table.
C29_TablesBcnfUnderImpliedFds ==
    "decompose_bcnf" \in done =>
        \A t \in 1..Len(tables) :
            LET T == TableCols(tables[t])
            IN \A X \in SUBSET T :
                   compute_closure(X, fds) \cap T \in {X, T}


\* the FDs listed as violations of level lvl in the assessment
ReportedFds(lvl) ==
    IF lvl \in DOMAIN nf.violations
    THEN {<<nf.violations[lvl][k].determinant, nf.violations[lvl][k].dependent>> :
              k \in 1..Len(nf.violations[lvl])}
    ELSE {}

\* C30: the violation levels of assess_normal_form are nested: every FD
\* listed as a 2NF or 3NF violation is also listed as a BCNF violation, so
\* an assessment without BCNF violation has neither and reports BCNF or UNF.
C30_ViolationLevelsNested ==
    "assess_normal_form" \in done =>
        /\ ReportedFds("2NF") \cup ReportedFds("3NF") \subseteq ReportedFds("BCNF")
        /\ ReportedFds("BCNF") = {} => nf.current_normal_form \in {"BCNF", "UNF"}

====
